---- MODULE Spec2Model ----
(***************************************************************************)
(* The request pipeline of the Cavendo Python SDK client                   *)
(* (packages/python-sdk/cavendo/client.py): response classification        *)
(* (_handle_response_error), the retry/backoff loop in its blocking        *)
(* (_request) and coroutine (_request_async) variants, and the lazily      *)
(* created HTTP client of each mode.                                       *)
(***************************************************************************)
EXTENDS Integers, Sequences, FiniteSets, TLC

(***************************************************************************)
(* Python values.  Every value is a record of the same shape so that any   *)
(* two values can be compared: t is the type tag, and exactly one of       *)
(* s (str), n (int), d (dict: key -> value), l (list) carries the payload. *)
(***************************************************************************)
PNone == [t |-> "none", s |-> "", n |-> 0, d |-> <<>>, l |-> <<>>]
PStr(x) == [t |-> "str", s |-> x, n |-> 0, d |-> <<>>, l |-> <<>>]
PInt(x) == [t |-> "int", s |-> "", n |-> x, d |-> <<>>, l |-> <<>>]
PDict(f) == [t |-> "dict", s |-> "", n |-> 0, d |-> f, l |-> <<>>]
PList(q) == [t |-> "list", s |-> "", n |-> 0, d |-> <<>>, l |-> q]

\* bool(v): None, "", 0, {} and [] are falsy
PyTruthy(v) ==
    CASE v.t = "none" -> FALSE
      [] v.t = "str" -> v.s # ""
      [] v.t = "int" -> v.n # 0
      [] v.t = "dict" -> DOMAIN v.d # {}
      [] v.t = "list" -> Len(v.l) > 0

\* a or b
PyOr(a, b) == IF PyTruthy(a) THEN a ELSE b

\* body.get(key, default); on a value that is not a dict the attribute
\* lookup fails (AttributeError, or TypeError for None)
DictGet(body, key, default) ==
    IF key \in DOMAIN body.d THEN body.d[key] ELSE default

(***************************************************************************)
(* int(str): surrounding whitespace is stripped, one optional sign, then   *)
(* decimal digits, single underscores allowed between digits.  Strings     *)
(* are sequences of one-character strings.                                 *)
(***************************************************************************)
Digits == {"0", "1", "2", "3", "4", "5", "6", "7", "8", "9"}

DigitVal(c) ==
    CASE c = "0" -> 0 [] c = "1" -> 1 [] c = "2" -> 2 [] c = "3" -> 3
      [] c = "4" -> 4 [] c = "5" -> 5 [] c = "6" -> 6 [] c = "7" -> 7
      [] c = "8" -> 8 [] c = "9" -> 9

RECURSIVE LStrip(_)
LStrip(str) ==
    IF str # <<>> /\ Head(str) = " " THEN LStrip(Tail(str)) ELSE str

RECURSIVE RStrip(_)
RStrip(str) ==
    IF str # <<>> /\ str[Len(str)] = " "
    THEN RStrip(SubSeq(str, 1, Len(str) - 1))
    ELSE str

Strip(str) == RStrip(LStrip(str))

\* the digit part of an integer literal: digits, single inner underscores
IsDigitPart(str) ==
    /\ str # <<>>
    /\ \A i \in 1..Len(str) : str[i] \in Digits \cup {"_"}
    /\ str[1] \in Digits
    /\ str[Len(str)] \in Digits
    /\ \A i \in 1..(Len(str) - 1) : ~(str[i] = "_" /\ str[i + 1] = "_")

RECURSIVE DigitsValue(_, _)
DigitsValue(str, acc) ==
    IF str = <<>> THEN acc
    ELSE IF Head(str) = "_" THEN DigitsValue(Tail(str), acc)
    ELSE DigitsValue(Tail(str), 10 * acc + DigitVal(Head(str)))

\* int(str): [ok |-> FALSE] stands for ValueError
PyInt(str) ==
    LET st == Strip(str)
        signed == st # <<>> /\ Head(st) \in {"+", "-"}
        body == IF signed THEN Tail(st) ELSE st
        mag == DigitsValue(body, 0)
    IN  IF IsDigitPart(body)
        THEN [ok |-> TRUE,
              val |-> IF signed /\ Head(st) = "-" THEN 0 - mag ELSE mag]
        ELSE [ok |-> FALSE, val |-> 0]

(***************************************************************************)
(* Errors.  kind is the exception class; the other fields are the          *)
(* attributes the constructors of exceptions.py set.                       *)
(***************************************************************************)
MkError(kind, message, status_code, response_body) ==
    [kind |-> kind, message |-> message, status_code |-> status_code,
     response_body |-> response_body, errors |-> PNone,
     retry_after |-> PNone]

\* ValidationError.__init__: self.errors = errors or {}
MkValidationError(message, status_code, response_body, errors) ==
    [MkError("ValidationError", message, status_code, response_body)
        EXCEPT !.errors = PyOr(errors, PDict(<<>>))]

\* RateLimitError.__init__: self.retry_after = retry_after
MkRateLimitError(message, status_code, response_body, retry_after) ==
    [MkError("RateLimitError", message, status_code, response_body)
        EXCEPT !.retry_after = retry_after]

\* CavendoConnectionError / CavendoTimeoutError: status code is None
MkConnectionError ==
    MkError("CavendoConnectionError", PStr("Failed to connect"), PNone, PNone)

MkTimeoutError ==
    MkError("CavendoTimeoutError", PStr("Request timed out"), PNone, PNone)

\* an exception that is not one of the SDK's classes
MkForeign(kind) == MkError(kind, PStr(""), PNone, PNone)

NoError == MkError("", PNone, PNone, PNone)

\* the classes of exceptions.py
Taxonomy ==
    {"AuthenticationError", "AuthorizationError", "NotFoundError",
     "ValidationError", "RateLimitError", "ServerError",
     "CavendoConnectionError", "CavendoTimeoutError", "CavendoError"}

(***************************************************************************)
(* A completed HTTP exchange: status code, the Retry-After header (absent  *)
(* or a string) and the body (its text and what response.json() makes of   *)
(* it: parses = FALSE stands for the decoder raising).                     *)
(***************************************************************************)
HeaderAbsent == [present |-> FALSE, value |-> <<>>]
Header(v) == [present |-> TRUE, value |-> v]

Body(text, parses, json) == [text |-> text, parses |-> parses, json |-> json]

Response(status, hdr, body) ==
    [t |-> "response", status |-> status, retry_after_hdr |-> hdr,
     body |-> body]

\* IsSuccess that knows 200 only
IsSuccess_Only200(status) == status = 200

\* httpx.Response.is_success
IsSuccess(status) == 200 <= status /\ status <= 299

\* StatusKind with 422 left out of the validation branch
StatusKind_Only400(status) ==
    IF status = 401 THEN "AuthenticationError"
    ELSE IF status = 403 THEN "AuthorizationError"
    ELSE IF status = 404 THEN "NotFoundError"
    ELSE IF status = 400 THEN "ValidationError"
    ELSE IF status = 429 THEN "RateLimitError"
    ELSE IF 500 <= status /\ status < 600 THEN "ServerError"
    ELSE "CavendoError"

\* the if/elif chain of _handle_response_error: the class raised for a
\* status that is not a success
StatusKind(status) ==
    IF status = 401 THEN "AuthenticationError"
    ELSE IF status = 403 THEN "AuthorizationError"
    ELSE IF status = 404 THEN "NotFoundError"
    ELSE IF status \in {400, 422} THEN "ValidationError"
    ELSE IF status = 429 THEN "RateLimitError"
    ELSE IF 500 <= status /\ status < 600 THEN "ServerError"
    ELSE "CavendoError"

\* try: body = response.json(); message = body.get("error", body.get(
\* "message", response.text)) except Exception: body = None; message =
\* response.text or f"HTTP {status_code}"
ParsedBody(response) ==
    IF response.body.parses /\ response.body.json.t = "dict"
    THEN response.body.json
    ELSE PNone

ErrorMessage(response) ==
    IF response.body.parses /\ response.body.json.t = "dict"
    THEN DictGet(response.body.json, "error",
                 DictGet(response.body.json, "message",
                         PStr(response.body.text)))
    ELSE PyOr(PStr(response.body.text),
              PStr("HTTP " \o ToString(response.status)))

\* retry_after = None; if "Retry-After" in headers: try int(...) except
\* ValueError: pass
ParseRetryAfter(response) ==
    IF response.retry_after_hdr.present
       /\ PyInt(response.retry_after_hdr.value).ok
    THEN PInt(PyInt(response.retry_after_hdr.value).val)
    ELSE PNone

\* _handle_response_error: NoError when it returns, else the error raised
HandleResponseError(response) ==
    LET status_code == response.status
        body == ParsedBody(response)
        message == ErrorMessage(response)
        kind == StatusKind(status_code)
    IN  IF IsSuccess(status_code) THEN NoError
        ELSE IF kind = "ValidationError"
        THEN MkValidationError(message, PInt(status_code), body,
                 IF PyTruthy(body) THEN DictGet(body, "errors", PNone)
                 ELSE PNone)
        ELSE IF kind = "RateLimitError"
        THEN MkRateLimitError(message, PInt(status_code), body,
                 ParseRetryAfter(response))
        ELSE MkError(kind, message, PInt(status_code), body)

(***************************************************************************)
(* Outcomes of one HTTP attempt: a response, or an exception of the        *)
(* transport (httpx.ConnectError, httpx.TimeoutException, or another       *)
(* httpx.TransportError such as httpx.ReadError).                          *)
(***************************************************************************)
NoBody == Body("", FALSE, PNone)
NoResponse == [t |-> "", status |-> 0, retry_after_hdr |-> HeaderAbsent,
               body |-> NoBody]
TransportFailure(kind) == [NoResponse EXCEPT !.t = kind]

TransportKinds ==
    {"httpx.ConnectError", "httpx.TimeoutException", "httpx.ReadError"}

\* NonRetryKinds with ValidationError missing from the tuple
NonRetryKinds_NoValidation ==
    {"AuthenticationError", "AuthorizationError", "NotFoundError"}

\* except (AuthenticationError, AuthorizationError, NotFoundError,
\* ValidationError): raise
NonRetryKinds ==
    {"AuthenticationError", "AuthorizationError", "NotFoundError",
     "ValidationError"}

\* CatchClause with connect failures handled by the backoff clause
CatchClause_RetryConnect(kind) ==
    IF kind \in {"AuthenticationError", "AuthorizationError",
                 "NotFoundError", "ValidationError"} THEN "reraise"
    ELSE IF kind = "RateLimitError" THEN "rate_limit"
    ELSE IF kind = "httpx.ConnectError" THEN "backoff"
    ELSE IF kind = "httpx.TimeoutException" THEN "timeout"
    ELSE IF kind \in Taxonomy THEN "backoff"
    ELSE "uncaught"

\* CatchClause with a last clause that catches ServerError only
CatchClause_ServerOnly(kind) ==
    IF kind \in {"AuthenticationError", "AuthorizationError",
                 "NotFoundError", "ValidationError"} THEN "reraise"
    ELSE IF kind = "RateLimitError" THEN "rate_limit"
    ELSE IF kind = "httpx.ConnectError" THEN "connect"
    ELSE IF kind = "httpx.TimeoutException" THEN "timeout"
    ELSE IF kind = "ServerError" THEN "backoff"
    ELSE "uncaught"

\* the except clause of the retry loop that catches an exception of the
\* given class; clauses are tried in source order, and every class of
\* exceptions.py is a subclass of CavendoError
CatchClause(kind) ==
    IF kind \in NonRetryKinds THEN "reraise"
    ELSE IF kind = "RateLimitError" THEN "rate_limit"
    ELSE IF kind = "httpx.ConnectError" THEN "connect"
    ELSE IF kind = "httpx.TimeoutException" THEN "timeout"
    ELSE IF kind \in Taxonomy THEN "backoff"
    ELSE "uncaught"

\* BudgetExhausted with > for >=
BudgetExhausted_OffByOne(retries, max) == retries > max

\* if retries >= self._max_retries: raise
BudgetExhausted(retries, max) == retries >= max

\* ExpBackoff computed from the incremented count
ExpBackoff_OffByOne(retries) == 2 ^ (retries + 1)

\* wait_time = 2 ** retries
ExpBackoff(retries) == 2 ^ retries

\* RateLimitWait whose fallback counts no retry made for another reason
RateLimitWait_OwnCount(e, retries) ==
    IF PyTruthy(e.retry_after) THEN e.retry_after.n ELSE ExpBackoff(0)

\* wait_time = e.retry_after if e.retry_after else (2 ** retries)
RateLimitWait(e, retries) ==
    IF PyTruthy(e.retry_after) THEN e.retry_after.n ELSE ExpBackoff(retries)

Modes == {"sync", "async"}

\* time.sleep raises ValueError for a negative length; asyncio.sleep
\* returns after one yield for a delay <= 0
SleepRaises(m, wait_time) == m = "sync" /\ wait_time < 0

\* what the body of the while loop does with the outcome of an attempt:
\* return the response, raise, or sleep wait_time and go round again
AfterAttempt(m, o, retries, max) ==
    LET exc == IF o.t = "response" THEN HandleResponseError(o)
               ELSE MkForeign(o.t)
        clause == IF exc = NoError THEN "none" ELSE CatchClause(exc.kind)
        retry(w) == IF SleepRaises(m, w)
                    THEN [next |-> "raise", error |-> MkForeign("ValueError"),
                          slept |-> TRUE, wait |-> w]
                    ELSE [next |-> "sleep", error |-> exc,
                          slept |-> TRUE, wait |-> w]
        raise(e) == [next |-> "raise", error |-> e, slept |-> FALSE,
                     wait |-> 0]
    IN  CASE clause = "none" ->
               [next |-> "return", error |-> NoError, slept |-> FALSE,
                wait |-> 0]
          [] clause = "reraise" -> raise(exc)
          [] clause = "rate_limit" ->
               IF BudgetExhausted(retries, max) THEN raise(exc)
               ELSE retry(RateLimitWait(exc, retries))
          [] clause = "connect" -> raise(MkConnectionError)
          [] clause = "timeout" -> raise(MkTimeoutError)
          [] clause = "backoff" ->
               IF BudgetExhausted(retries, max) THEN raise(exc)
               ELSE retry(ExpBackoff(retries))
          [] clause = "uncaught" -> raise(exc)

(***************************************************************************)
(* Bounds and inputs                                                       *)
(***************************************************************************)
MaxRetries == 2

\* calls begun, and close() / aclose() calls made, per mode
MaxCalls == 2
MaxCloses == 2
MaxCallers == 2
MaxReleases == 1

\* the api_key of the test fixtures
TestKey == <<"c", "a", "v", "_", "a", "k">>

\* max_retries is not validated by __init__
RetryBudgets == (0 - 1)..MaxRetries

BodyOk ==
    Body("{success,data}", TRUE,
         PDict("success" :> PInt(1) @@ "data" :> PDict("id" :> PInt(1))))
BodyError == Body("{error}", TRUE, PDict("error" :> PStr("E")))
BodyMessage == Body("{message}", TRUE, PDict("message" :> PStr("M")))
BodyErrors ==
    Body("{error,message,errors}", TRUE,
         PDict("error" :> PStr("E") @@ "message" :> PStr("M")
               @@ "errors" :> PDict("title" :> PList(<<PStr("required")>>))))
BodyNullErrors ==
    Body("{error,errors:null}", TRUE,
         PDict("error" :> PStr("E") @@ "errors" :> PNone))
BodyEmptyDict == Body("{}", TRUE, PDict(<<>>))
BodyList == Body("[1]", TRUE, PList(<<PInt(1)>>))
BodyHtml == Body("<html>", FALSE, PNone)
BodyDataList ==
    Body("{data:[1]}", TRUE, PDict("data" :> PList(<<PInt(1)>>)))
BodyDataScalar == Body("{data:0}", TRUE, PDict("data" :> PInt(0)))
BodyDataNull == Body("{data:null}", TRUE, PDict("data" :> PNone))
BodyNull == Body("null", TRUE, PNone)

Bodies ==
    {BodyOk, BodyError, BodyMessage, BodyErrors, BodyNullErrors,
     BodyEmptyDict, BodyList, BodyHtml, NoBody, BodyDataList,
     BodyDataScalar, BodyDataNull, BodyNull}

\* Retry-After header values
RetryAfterValues ==
    {<<"3">>, <<"0">>, <<"-", "1">>, <<"a">>, <<"1", ".", "5">>,
     <<" ", "1", "_", "0">>, <<"+", "7">>, <<>>, <<"5", "_">>}
Headers == {HeaderAbsent} \cup {Header(v) : v \in RetryAfterValues}

Statuses ==
    {100, 199, 200, 204, 299, 300, 302, 400, 401, 402, 403, 404, 409, 422,
     429, 499, 500, 503, 599, 600}

\* the exchanges the classifier is applied to
ClassifierInputs ==
    {Response(st, h, b) : st \in Statuses, h \in Headers, b \in Bodies}

\* the outcomes the transport can give an attempt of the retry loop
ExecHeaders ==
    {HeaderAbsent, Header(<<"3">>), Header(<<"0">>), Header(<<"-", "1">>),
     Header(<<"a">>)}
ExecOutcomes ==
    {Response(200, HeaderAbsent, BodyOk), Response(204, HeaderAbsent, NoBody),
     Response(200, HeaderAbsent, BodyList)}
    \cup {Response(st, HeaderAbsent, BodyError) :
             st \in {302, 400, 401, 403, 404, 409, 500, 503}}
    \cup {Response(422, HeaderAbsent, BodyErrors),
          Response(503, Header(<<"3">>), BodyHtml)}
    \cup {Response(429, h, BodyError) : h \in ExecHeaders}
    \cup {TransportFailure(k) : k \in TransportKinds}

(***************************************************************************)
(* Construction.  An optional string is None or a string (a sequence of    *)
(* one-character strings).                                                 *)
(***************************************************************************)
StrNone == [some |-> FALSE, str |-> <<>>]
Str(x) == [some |-> TRUE, str |-> x]

\* StrTruthy written as "is not None"
StrTruthy_NotNone(x) == x.some

\* bool(x) of an Optional[str]
StrTruthy(x) == x.some /\ x.str # <<>>

\* a or b
StrOr(a, b) == IF StrTruthy(a) THEN a ELSE b

\* os.environ.get(name, default)
EnvGet(value, default) == IF value.some THEN value ELSE default

\* str.rstrip("/")
RECURSIVE RStripSlash(_)
RStripSlash(str) ==
    IF str # <<>> /\ str[Len(str)] = "/"
    THEN RStripSlash(SubSeq(str, 1, Len(str) - 1))
    ELSE str

DefaultUrl ==
    <<"h", "t", "t", "p", ":", "/", "/", "l", "o", "c", "a", "l", "h", "o",
      "s", "t", ":", "3", "0", "0", "1">>

\* ResolveUrl with the environment consulted first
ResolveUrl_EnvFirst(url, env) ==
    RStripSlash(EnvGet(env, StrOr(url, Str(DefaultUrl))).str)

\* self._url = (url or os.environ.get("CAVENDO_URL", default)).rstrip("/")
ResolveUrl(url, env) ==
    RStripSlash(StrOr(url, EnvGet(env, Str(DefaultUrl))).str)

\* self._api_key = api_key or os.environ.get("CAVENDO_AGENT_KEY")
ResolveKey(api_key, env) == StrOr(api_key, EnvGet(env, StrNone))

\* GetHeaders without the credential
GetHeaders_NoKey(api_key) ==
    [XAgentKey |-> <<>>,
     ContentType |-> "application/json",
     Accept |-> "application/json"]

\* _get_headers
GetHeaders(api_key) ==
    [XAgentKey |-> StrOr(api_key, Str(<<>>)).str,
     ContentType |-> "application/json",
     Accept |-> "application/json"]

\* NeedsClient that never reuses
NeedsClient_Always(slot) == TRUE

\* if self._sync_client is None / if self._async_client is None
NeedsClient(slot) == slot = 0

\* Released that takes both modes
Released_Both(m) == {"sync", "async"}

\* the modes whose httpx client close() (m = "sync") or aclose()
\* (m = "async") closes and clears: only its own
Released(m) == {m}

\* ExtractData written as body.get("data") or body
ExtractData_FalsyData(resp) ==
    IF ~resp.body.parses
    THEN [t |-> "raised", data |-> PNone,
          error |-> MkError("ServerError",
                            PStr("Invalid JSON response from server"),
                            PInt(500), PNone)]
    ELSE [t |-> "data",
          data |-> IF resp.body.json.t = "dict"
                      /\ "data" \in DOMAIN resp.body.json.d
                      /\ PyTruthy(resp.body.json.d["data"])
                   THEN resp.body.json.d["data"]
                   ELSE resp.body.json,
          error |-> NoError]

\* ExtractData falling back to the text of a body that is not JSON
ExtractData_RawText(resp) ==
    IF ~resp.body.parses
    THEN [t |-> "data", data |-> PStr(resp.body.text), error |-> NoError]
    ELSE [t |-> "data",
          data |-> IF resp.body.json.t = "dict"
                      /\ "data" \in DOMAIN resp.body.json.d
                   THEN resp.body.json.d["data"]
                   ELSE resp.body.json,
          error |-> NoError]

\* _extract_data: the data returned, or the ServerError raised when the
\* body is not JSON (ServerError's default status code is 500)
ExtractData(resp) ==
    IF ~resp.body.parses
    THEN [t |-> "raised", data |-> PNone,
          error |-> MkError("ServerError",
                            PStr("Invalid JSON response from server"),
                            PInt(500), PNone)]
    ELSE [t |-> "data",
          data |-> IF resp.body.json.t = "dict"
                      /\ "data" \in DOMAIN resp.body.json.d
                   THEN resp.body.json.d["data"]
                   ELSE resp.body.json,
          error |-> NoError]

NotUnwrapped == [t |-> "pending", data |-> PNone, error |-> NoError]

(***************************************************************************)
(* State                                                                   *)
(***************************************************************************)
VARIABLES
    arg_url,        \* the url argument of __init__
    arg_key,        \* the api_key argument of __init__
    env_url,        \* os.environ["CAVENDO_URL"]
    env_key,        \* os.environ["CAVENDO_AGENT_KEY"]
    constructed,    \* "no", "ok", or "failed" (__init__ raised ValueError)
    cfg_url,        \* self._url
    cfg_key,        \* self._api_key
    max_retries,    \* self._max_retries
    http_client,    \* self._sync_client / self._async_client: 0 is None
    created,        \* per mode, how many httpx clients were constructed
    headers_of,     \* per mode, the default headers of each httpx client
    closed,         \* per mode, the httpx clients that have been closed
    closes,         \* per mode, the number of close() / aclose() calls
    calls,          \* per mode, the number of calls begun
    sent,           \* per mode, the httpx client and headers of each request
    script,         \* the outcome the transport gives the k-th attempt
    pc,             \* per mode: "idle", "inflight", "sleeping",
                    \*           "returned", "raised"
    client,         \* per mode, the local variable client
    retries,        \* per mode, the local variable retries
    last_error,     \* per mode, the local variable last_error
    caught,         \* per mode, the exception e of the running handler
    attempts,       \* per mode, the number of client.request calls
    completed,      \* per mode, the number of client.request calls over
    waits,          \* per mode, the durations handed to sleep, in order
    response,       \* per mode, the response returned
    raised,         \* per mode, the exception that left the call
    unwrapped,      \* per mode, what _request_json makes of the call
    cl_response,    \* the exchange given to _handle_response_error
    cl_done,        \* whether it has been classified
    cl_result,      \* the error raised for it, NoError if none
    cl_extracted,   \* whether _extract_data has been applied to it
    cl_data,        \* what _extract_data gave
    run_mode,       \* the mode of the callers that share the client
    t_pc,           \* per caller: "idle", "creating", "fetching",
                    \*             "inflight", "sleeping", "returned", "raised"
    t_client,       \* per caller, the local variable client
    t_retries,      \* per caller, the local variable retries
    t_error,        \* per caller, the class of the exception that left it
    t_sent,         \* the requests of the callers: caller, httpx client,
                    \* and whether that client was closed when it was sent
    rel_pc          \* the releasing caller: "idle", or "clearing" between
                    \* the close of the httpx client and the assignment

configVars == <<arg_url, arg_key, env_url, env_key, constructed, cfg_url,
                cfg_key, max_retries>>
resourceVars == <<http_client, created, headers_of, closed, closes>>
callVars == <<calls, sent, script, pc, client, retries, last_error, caught,
              attempts, completed, waits, response, raised, unwrapped>>
concVars == <<run_mode, t_pc, t_client, t_retries, t_error, t_sent, rel_pc>>
execVars == <<configVars, resourceVars, callVars, concVars>>
classifierVars == <<cl_response, cl_done, cl_result, cl_extracted, cl_data>>

vars == <<execVars, classifierVars>>

\* the callers that share the client, none of them started
Callers == 1..MaxCallers

NoCallers ==
    /\ t_pc = [t \in Callers |-> "idle"]
    /\ t_client = [t \in Callers |-> 0]
    /\ t_retries = [t \in Callers |-> 0]
    /\ t_error = [t \in Callers |-> ""]
    /\ t_sent = {}
    /\ rel_pc = "idle"

\* the attributes __init__ sets to None, and the calls not yet made
Fresh ==
    /\ http_client = [m \in Modes |-> 0]
    /\ created = [m \in Modes |-> 0]
    /\ headers_of = [m \in Modes |-> <<>>]
    /\ closed = [m \in Modes |-> {}]
    /\ closes = [m \in Modes |-> 0]
    /\ calls = [m \in Modes |-> 0]
    /\ sent = [m \in Modes |-> {}]
    /\ script = <<>>
    /\ pc = [m \in Modes |-> "idle"]
    /\ client = [m \in Modes |-> 0]
    /\ retries = [m \in Modes |-> 0]
    /\ last_error = [m \in Modes |-> NoError]
    /\ caught = [m \in Modes |-> NoError]
    /\ attempts = [m \in Modes |-> 0]
    /\ completed = [m \in Modes |-> 0]
    /\ waits = [m \in Modes |-> <<>>]
    /\ response = [m \in Modes |-> NoResponse]
    /\ raised = [m \in Modes |-> NoError]
    /\ unwrapped = [m \in Modes |-> NotUnwrapped]
    /\ NoCallers

NoClassifier ==
    /\ cl_response = NoResponse
    /\ cl_done = FALSE
    /\ cl_result = NoError
    /\ cl_extracted = FALSE
    /\ cl_data = NotUnwrapped

\* the client of the test fixtures: CavendoClient(url=base_url,
\* api_key=api_key, max_retries=...), constructed
ClientInit(budgets) ==
    /\ arg_url = Str(DefaultUrl)
    /\ arg_key = Str(TestKey)
    /\ env_url = StrNone
    /\ env_key = StrNone
    /\ constructed = "ok"
    /\ cfg_url = ResolveUrl(arg_url, env_url)
    /\ cfg_key = ResolveKey(arg_key, env_key)
    /\ max_retries \in budgets
    /\ Fresh

Init ==
    /\ ClientInit(RetryBudgets)
    /\ NoClassifier
    /\ run_mode = "sync"

(***************************************************************************)
(* The retry loop.  Begin runs a call up to its first client.request,      *)
(* Receive takes the outcome of the attempt in flight through the handler  *)
(* up to the return, the raise or the sleep, and Wake runs from the end of *)
(* the sleep to the next client.request.                                   *)
(***************************************************************************)

\* a blocking call holds the caller's thread until it returns or raises
Blocked == pc["sync"] \in {"inflight", "sleeping"}
CanRun(m) == m = "sync" \/ ~Blocked

\* raise CavendoError("Request failed after retries")
FellThrough ==
    MkError("CavendoError", PStr("Request failed after retries"), PNone,
            PNone)

\* client.request(...): the request goes out on the httpx client c with
\* that client's default headers
SendOn(m, c) ==
    [res |-> c, headers |-> headers_of'[m][c], closed |-> c \in closed[m]]

\* while retries <= self._max_retries: ... client.request(...); after the
\* loop: if last_error: raise last_error; raise CavendoError(...)
LoopHead(m, r, le) ==
    IF r <= max_retries
    THEN /\ attempts' = [attempts EXCEPT ![m] = @ + 1]
         /\ sent' = [sent EXCEPT ![m] = @ \cup {SendOn(m, client'[m])}]
         /\ pc' = [pc EXCEPT ![m] = "inflight"]
         /\ raised' = raised
    ELSE /\ attempts' = attempts
         /\ sent' = sent
         /\ pc' = [pc EXCEPT ![m] = "raised"]
         /\ raised' = [raised EXCEPT ![m] =
                          IF le # NoError THEN le ELSE FellThrough]

\* _get_sync_client / _get_async_client, then retries = 0, last_error =
\* None and the first pass through the loop head
Begin(m) ==
    /\ constructed = "ok"
    /\ pc[m] = "idle"
    /\ calls[m] < MaxCalls
    /\ CanRun(m)
    /\ calls' = [calls EXCEPT ![m] = @ + 1]
    /\ IF NeedsClient(http_client[m])
       THEN /\ created' = [created EXCEPT ![m] = @ + 1]
            /\ http_client' = [http_client EXCEPT ![m] = created[m] + 1]
            /\ headers_of' = [headers_of EXCEPT ![m] =
                                 Append(@, GetHeaders(cfg_key))]
       ELSE UNCHANGED <<created, http_client, headers_of>>
    /\ client' = [client EXCEPT ![m] = http_client'[m]]
    /\ retries' = [retries EXCEPT ![m] = 0]
    /\ last_error' = [last_error EXCEPT ![m] = NoError]
    /\ LoopHead(m, 0, NoError)
    /\ UNCHANGED <<script, caught, completed, waits, response, unwrapped>>
    /\ UNCHANGED <<closed, closes>>
    /\ UNCHANGED configVars
    /\ UNCHANGED classifierVars
    /\ UNCHANGED concVars

\* Handle that raises the error kept from the attempt before, when one is
Handle_RaisesLastError(m, o) ==
    LET a == AfterAttempt(m, o, retries[m], max_retries)
    IN  /\ completed' = [completed EXCEPT ![m] = @ + 1]
        /\ waits' = [waits EXCEPT ![m] =
                        IF a.slept THEN Append(@, a.wait) ELSE @]
        /\ pc' = [pc EXCEPT ![m] =
                     CASE a.next = "return" -> "returned"
                       [] a.next = "raise" -> "raised"
                       [] a.next = "sleep" -> "sleeping"]
        /\ response' = [response EXCEPT ![m] =
                           IF a.next = "return" THEN o ELSE @]
        /\ raised' = [raised EXCEPT ![m] =
                         IF a.next # "raise" THEN @
                         ELSE IF last_error[m] # NoError THEN last_error[m]
                         ELSE a.error]
        /\ caught' = [caught EXCEPT ![m] =
                         IF a.next = "sleep" THEN a.error ELSE @]
        /\ unwrapped' = [unwrapped EXCEPT ![m] =
                            IF a.next = "return" THEN ExtractData(o)
                            ELSE @]

\* the attempt in flight completes with outcome o; a response that is
\* returned is what _request_json hands to _extract_data
Handle(m, o) ==
    LET a == AfterAttempt(m, o, retries[m], max_retries)
    IN  /\ completed' = [completed EXCEPT ![m] = @ + 1]
        /\ waits' = [waits EXCEPT ![m] =
                        IF a.slept THEN Append(@, a.wait) ELSE @]
        /\ pc' = [pc EXCEPT ![m] =
                     CASE a.next = "return" -> "returned"
                       [] a.next = "raise" -> "raised"
                       [] a.next = "sleep" -> "sleeping"]
        /\ response' = [response EXCEPT ![m] =
                           IF a.next = "return" THEN o ELSE @]
        /\ raised' = [raised EXCEPT ![m] =
                         IF a.next = "raise" THEN a.error ELSE @]
        /\ caught' = [caught EXCEPT ![m] =
                         IF a.next = "sleep" THEN a.error ELSE @]
        /\ unwrapped' = [unwrapped EXCEPT ![m] =
                            IF a.next = "return" THEN ExtractData(o)
                            ELSE @]

Receive(m) ==
    /\ pc[m] = "inflight"
    /\ CanRun(m)
    /\ IF attempts[m] <= Len(script)
       THEN /\ script' = script
            /\ Handle(m, script[attempts[m]])
       ELSE \E o \in ExecOutcomes :
                /\ script' = Append(script, o)
                /\ Handle(m, o)
    /\ UNCHANGED <<calls, sent, client, retries, last_error, attempts>>
    /\ UNCHANGED resourceVars
    /\ UNCHANGED configVars
    /\ UNCHANGED classifierVars
    /\ UNCHANGED concVars

\* Wake that does not wait for the attempt in flight and its sleep
Wake_DuringAttempt(m) ==
    /\ pc[m] \in {"inflight", "sleeping"}
    /\ CanRun(m)
    /\ last_error' = [last_error EXCEPT ![m] = caught[m]]
    /\ retries' = [retries EXCEPT ![m] = @ + 1]
    /\ client' = client
    /\ headers_of' = headers_of
    /\ LoopHead(m, retries[m] + 1, caught[m])
    /\ UNCHANGED <<calls, script, caught, completed, waits, response,
                   unwrapped>>
    /\ UNCHANGED <<http_client, created, closed, closes>>
    /\ UNCHANGED configVars
    /\ UNCHANGED classifierVars
    /\ UNCHANGED concVars

\* the sleep is over: last_error = e; retries += 1; loop head
Wake(m) ==
    /\ pc[m] = "sleeping"
    /\ CanRun(m)
    /\ last_error' = [last_error EXCEPT ![m] = caught[m]]
    /\ retries' = [retries EXCEPT ![m] = @ + 1]
    /\ client' = client
    /\ headers_of' = headers_of
    /\ LoopHead(m, retries[m] + 1, caught[m])
    /\ UNCHANGED <<calls, script, caught, completed, waits, response,
                   unwrapped>>
    /\ UNCHANGED <<http_client, created, closed, closes>>
    /\ UNCHANGED configVars
    /\ UNCHANGED classifierVars
    /\ UNCHANGED concVars

Next ==
    \/ Begin("sync")
    \/ Receive("sync")
    \/ Wake("sync")
    \/ Begin("async")
    \/ Receive("async")
    \/ Wake("async")

Spec == Init /\ [][Next]_vars

\* client.request(...) comes back: the attempt in flight ends in a return,
\* a raise or a sleep.  These are the steps of Receive(m), told by pc alone
AttemptEnds(m) ==
    /\ pc[m] = "inflight"
    /\ CanRun(m)
    /\ \E p \in {"returned", "raised", "sleeping"} :
           pc' = [pc EXCEPT ![m] = p]

\* Fairness under which a sleep may last for ever
Fairness_AttemptsOnly ==
    \A m \in Modes : WF_pc(AttemptEnds(m))

\* every attempt and every sleep comes to an end
Fairness ==
    \A m \in Modes : WF_pc(AttemptEnds(m)) /\ WF_vars(Wake(m))

FairSpec == Spec /\ Fairness

(***************************************************************************)
(* The life of a client as one caller drives it: construction, calls in    *)
(* either mode one after the other, and releases between calls.            *)
(***************************************************************************)
UrlArgs ==
    {StrNone, Str(<<>>), Str(<<"u">>), Str(<<"u", "/">>),
     Str(<<"u", "/", "/">>), Str(<<"/">>)}
UrlEnvs == {StrNone, Str(<<>>), Str(<<"e">>), Str(<<"e", "/">>)}
KeyArgs == {StrNone, Str(<<>>), Str(<<"a">>)}
KeyEnvs == {StrNone, Str(<<>>), Str(<<"b">>)}

Unconstructed(urls, url_envs, budgets) ==
    /\ arg_url \in urls
    /\ arg_key \in KeyArgs
    /\ env_url \in url_envs
    /\ env_key \in KeyEnvs
    /\ constructed = "no"
    /\ cfg_url = <<>>
    /\ cfg_key = StrNone
    /\ max_retries \in budgets
    /\ Fresh
    /\ NoClassifier
    /\ run_mode = "sync"

\* CavendoClient.__init__
Construct ==
    /\ constructed = "no"
    /\ cfg_url' = ResolveUrl(arg_url, env_url)
    /\ cfg_key' = ResolveKey(arg_key, env_key)
    /\ constructed' = IF StrTruthy(cfg_key') THEN "ok" ELSE "failed"
    /\ http_client' = [m \in Modes |-> 0]
    /\ UNCHANGED <<arg_url, arg_key, env_url, env_key, max_retries>>
    /\ UNCHANGED <<created, headers_of, closed, closes>>
    /\ UNCHANGED callVars
    /\ UNCHANGED classifierVars
    /\ UNCHANGED concVars

\* the outcomes of an attempt in the life of a client
LifecycleOutcomes ==
    {Response(200, HeaderAbsent, BodyOk),
     Response(404, HeaderAbsent, BodyError),
     Response(500, HeaderAbsent, BodyError)}

\* the attempt in flight completes, with any outcome
ReceiveAny(m) ==
    /\ pc[m] = "inflight"
    /\ CanRun(m)
    /\ \E o \in LifecycleOutcomes : Handle(m, o)
    /\ UNCHANGED <<calls, sent, script, client, retries, last_error,
                   attempts>>
    /\ UNCHANGED resourceVars
    /\ UNCHANGED configVars
    /\ UNCHANGED classifierVars
    /\ UNCHANGED concVars

\* the call is over: its frame is gone and the caller goes on
Finish(m) ==
    /\ pc[m] \in {"returned", "raised"}
    /\ CanRun(m)
    /\ pc' = [pc EXCEPT ![m] = "idle"]
    /\ client' = [client EXCEPT ![m] = 0]
    /\ retries' = [retries EXCEPT ![m] = 0]
    /\ last_error' = [last_error EXCEPT ![m] = NoError]
    /\ caught' = [caught EXCEPT ![m] = NoError]
    /\ attempts' = [attempts EXCEPT ![m] = 0]
    /\ completed' = [completed EXCEPT ![m] = 0]
    /\ waits' = [waits EXCEPT ![m] = <<>>]
    /\ response' = [response EXCEPT ![m] = NoResponse]
    /\ raised' = [raised EXCEPT ![m] = NoError]
    /\ unwrapped' = [unwrapped EXCEPT ![m] = NotUnwrapped]
    /\ UNCHANGED <<calls, sent, script>>
    /\ UNCHANGED resourceVars
    /\ UNCHANGED configVars
    /\ UNCHANGED classifierVars
    /\ UNCHANGED concVars

\* Close that closes the httpx client and leaves it in the attribute
Close_KeepsSlot(m) ==
    /\ constructed = "ok"
    /\ pc[m] \notin {"inflight", "sleeping"}
    /\ CanRun(m)
    /\ closes[m] < MaxCloses
    /\ closes' = [closes EXCEPT ![m] = @ + 1]
    /\ closed' = [n \in Modes |->
                     IF n \in Released(m) /\ http_client[n] # 0
                     THEN closed[n] \cup {http_client[n]}
                     ELSE closed[n]]
    /\ http_client' = http_client
    /\ UNCHANGED <<created, headers_of>>
    /\ UNCHANGED callVars
    /\ UNCHANGED configVars
    /\ UNCHANGED classifierVars
    /\ UNCHANGED concVars

\* close() and __exit__ (m = "sync"), aclose() and __aexit__ (m = "async"),
\* called between the calls of mode m: if self._sync_client: close it and
\* set the attribute to None
Close(m) ==
    /\ constructed = "ok"
    /\ pc[m] \notin {"inflight", "sleeping"}
    /\ CanRun(m)
    /\ closes[m] < MaxCloses
    /\ closes' = [closes EXCEPT ![m] = @ + 1]
    /\ closed' = [n \in Modes |->
                     IF n \in Released(m) /\ http_client[n] # 0
                     THEN closed[n] \cup {http_client[n]}
                     ELSE closed[n]]
    /\ http_client' = [n \in Modes |->
                          IF n \in Released(m) /\ http_client[n] # 0
                          THEN 0
                          ELSE http_client[n]]
    /\ UNCHANGED <<created, headers_of>>
    /\ UNCHANGED callVars
    /\ UNCHANGED configVars
    /\ UNCHANGED classifierVars
    /\ UNCHANGED concVars

InitLifecycle == Unconstructed({Str(<<"u", "/">>)}, {StrNone}, {1})

NextLifecycle ==
    \/ Construct
    \/ Begin("sync")
    \/ ReceiveAny("sync")
    \/ Wake("sync")
    \/ Finish("sync")
    \/ Close("sync")
    \/ Begin("async")
    \/ ReceiveAny("async")
    \/ Wake("async")
    \/ Finish("async")
    \/ Close("async")

SpecLifecycle == InitLifecycle /\ [][NextLifecycle]_vars

\* construction alone, over every combination of arguments and environment
InitConstruct == Unconstructed(UrlArgs, UrlEnvs, {3})

NextConstruct == Construct

SpecConstruct == InitConstruct /\ [][NextConstruct]_vars

(***************************************************************************)
(* Several callers on one client: asyncio tasks of one event loop when     *)
(* run_mode is "async", threads when it is "sync", each making one call,   *)
(* and one more caller that releases.  A call is taken statement by        *)
(* statement through the lazy getter; a release is taken in two steps,     *)
(* the close of the httpx client and the assignment of None.               *)
(***************************************************************************)

\* Cooperative under which tasks are preempted like threads
Cooperative_Preemptive(md) == FALSE

\* tasks of an event loop give up control only at an await, and there is
\* none in _get_async_client nor between it and the first client.request;
\* threads are preempted between any two statements
Cooperative(md) == md = "async"

\* caller t is between the emptiness check of the getter and its first
\* client.request
InGetter(t) == t_pc[t] \in {"creating", "fetching"}

\* no task is in a stretch of code without an await, other than t itself
MayStep(t) ==
    \A u \in Callers \ {t} : ~(Cooperative(run_mode) /\ InGetter(u))

\* one pass of the loop head of caller t, with local client c and r
\* retries: the request goes out on c.  On None the attribute lookup
\* c.request raises AttributeError; on a closed httpx client the request
\* is refused with RuntimeError or goes out, depending on the httpx
\* release
CallerLoopHead(t, c, r) ==
    IF r > max_retries
    THEN /\ t_pc' = [t_pc EXCEPT ![t] = "raised"]
         /\ t_error' = [t_error EXCEPT ![t] = "CavendoError"]
         /\ t_sent' = t_sent
    ELSE IF c = 0
    THEN /\ t_pc' = [t_pc EXCEPT ![t] = "raised"]
         /\ t_error' = [t_error EXCEPT ![t] = "AttributeError"]
         /\ t_sent' = t_sent
    ELSE /\ t_sent' = t_sent \cup
                {[caller |-> t, res |-> c,
                  closed |-> c \in closed[run_mode]]}
         /\ \E refused \in IF c \in closed[run_mode]
                            THEN {TRUE, FALSE} ELSE {FALSE} :
                IF refused
                THEN /\ t_pc' = [t_pc EXCEPT ![t] = "raised"]
                     /\ t_error' = [t_error EXCEPT ![t] = "RuntimeError"]
                ELSE /\ t_pc' = [t_pc EXCEPT ![t] = "inflight"]
                     /\ t_error' = t_error

\* if self._sync_client is None:
CallerCheck(t) ==
    /\ constructed = "ok"
    /\ t_pc[t] = "idle"
    /\ MayStep(t)
    /\ t_pc' = [t_pc EXCEPT ![t] =
                   IF NeedsClient(http_client[run_mode]) THEN "creating"
                   ELSE "fetching"]
    /\ UNCHANGED <<run_mode, t_client, t_retries, t_error, t_sent, rel_pc>>
    /\ UNCHANGED <<configVars, resourceVars, callVars>>
    /\ UNCHANGED classifierVars

\* self._sync_client = httpx.Client(...)
CallerCreate(t) ==
    /\ t_pc[t] = "creating"
    /\ MayStep(t)
    /\ created' = [created EXCEPT ![run_mode] = @ + 1]
    /\ http_client' = [http_client EXCEPT ![run_mode] = created[run_mode] + 1]
    /\ headers_of' = [headers_of EXCEPT ![run_mode] =
                         Append(@, GetHeaders(cfg_key))]
    /\ t_pc' = [t_pc EXCEPT ![t] = "fetching"]
    /\ UNCHANGED <<run_mode, t_client, t_retries, t_error, t_sent, rel_pc>>
    /\ UNCHANGED <<closed, closes>>
    /\ UNCHANGED <<configVars, callVars>>
    /\ UNCHANGED classifierVars

\* return self._sync_client; client = ...; retries = 0; the first pass
\* through the loop head
CallerFetch(t) ==
    /\ t_pc[t] = "fetching"
    /\ MayStep(t)
    /\ t_client' = [t_client EXCEPT ![t] = http_client[run_mode]]
    /\ t_retries' = [t_retries EXCEPT ![t] = 0]
    /\ CallerLoopHead(t, http_client[run_mode], 0)
    /\ UNCHANGED <<run_mode, rel_pc>>
    /\ UNCHANGED <<configVars, resourceVars, callVars>>
    /\ UNCHANGED classifierVars

\* the outcomes of an attempt of a caller: one that ends the call and one
\* that is retried
CallerOutcomes ==
    {Response(200, HeaderAbsent, BodyOk),
     Response(500, HeaderAbsent, BodyError)}

\* the attempt in flight of caller t completes, with any outcome
CallerReceive(t) ==
    /\ t_pc[t] = "inflight"
    /\ MayStep(t)
    /\ \E o \in CallerOutcomes :
           LET a == AfterAttempt(run_mode, o, t_retries[t], max_retries)
           IN  /\ t_pc' = [t_pc EXCEPT ![t] =
                              CASE a.next = "return" -> "returned"
                                [] a.next = "raise" -> "raised"
                                [] a.next = "sleep" -> "sleeping"]
               /\ t_error' = [t_error EXCEPT ![t] =
                                 IF a.next = "raise" THEN a.error.kind
                                 ELSE @]
    /\ UNCHANGED <<run_mode, t_client, t_retries, t_sent, rel_pc>>
    /\ UNCHANGED <<configVars, resourceVars, callVars>>
    /\ UNCHANGED classifierVars

\* the sleep of caller t is over: retries += 1; loop head
CallerWake(t) ==
    /\ t_pc[t] = "sleeping"
    /\ MayStep(t)
    /\ t_retries' = [t_retries EXCEPT ![t] = @ + 1]
    /\ CallerLoopHead(t, t_client[t], t_retries[t] + 1)
    /\ UNCHANGED <<run_mode, t_client, rel_pc>>
    /\ UNCHANGED <<configVars, resourceVars, callVars>>
    /\ UNCHANGED classifierVars

\* close() / aclose(), first part: if self._sync_client:
\* self._sync_client.close()
ReleaseClose ==
    /\ constructed = "ok"
    /\ rel_pc = "idle"
    /\ closes[run_mode] < MaxReleases
    /\ MayStep(0)
    /\ closes' = [closes EXCEPT ![run_mode] = @ + 1]
    /\ IF http_client[run_mode] # 0
       THEN /\ closed' = [closed EXCEPT ![run_mode] =
                             @ \cup {http_client[run_mode]}]
            /\ rel_pc' = "clearing"
       ELSE /\ closed' = closed
            /\ rel_pc' = "idle"
    /\ UNCHANGED <<run_mode, t_pc, t_client, t_retries, t_error, t_sent>>
    /\ UNCHANGED <<http_client, created, headers_of>>
    /\ UNCHANGED <<configVars, callVars>>
    /\ UNCHANGED classifierVars

\* close() / aclose(), second part: self._sync_client = None
ReleaseClear ==
    /\ rel_pc = "clearing"
    /\ MayStep(0)
    /\ http_client' = [http_client EXCEPT ![run_mode] = 0]
    /\ rel_pc' = "idle"
    /\ UNCHANGED <<run_mode, t_pc, t_client, t_retries, t_error, t_sent>>
    /\ UNCHANGED <<created, headers_of, closed, closes>>
    /\ UNCHANGED <<configVars, callVars>>
    /\ UNCHANGED classifierVars

InitConcurrent ==
    /\ ClientInit({1})
    /\ NoClassifier
    /\ run_mode \in Modes

NextConcurrent ==
    \/ \E t \in Callers : CallerCheck(t)
    \/ \E t \in Callers : CallerCreate(t)
    \/ \E t \in Callers : CallerFetch(t)
    \/ \E t \in Callers : CallerReceive(t)
    \/ \E t \in Callers : CallerWake(t)
    \/ ReleaseClose
    \/ ReleaseClear

SpecConcurrent == InitConcurrent /\ [][NextConcurrent]_vars

(***************************************************************************)
(* The classifier and _extract_data on their own: one exchange, each       *)
(* function applied to it once.                                            *)
(***************************************************************************)
InitClassifier ==
    /\ ClientInit({0})
    /\ run_mode = "sync"
    /\ cl_response \in ClassifierInputs
    /\ cl_done = FALSE
    /\ cl_result = NoError
    /\ cl_extracted = FALSE
    /\ cl_data = NotUnwrapped

Classify ==
    /\ ~cl_done
    /\ cl_result' = HandleResponseError(cl_response)
    /\ cl_done' = TRUE
    /\ UNCHANGED <<cl_response, cl_extracted, cl_data>>
    /\ UNCHANGED execVars

Extract ==
    /\ ~cl_extracted
    /\ cl_data' = ExtractData(cl_response)
    /\ cl_extracted' = TRUE
    /\ UNCHANGED <<cl_response, cl_done, cl_result>>
    /\ UNCHANGED execVars

NextClassifier == Classify \/ Extract

SpecClassifier == InitClassifier /\ [][NextClassifier]_vars

(***************************************************************************)
(* Properties                                                              *)
(***************************************************************************)
Terminal(m) == pc[m] \in {"returned", "raised"}

\* the number of attempts of mode m whose outcome has been handled
Processed(m) == IF pc[m] = "inflight" THEN attempts[m] - 1 ELSE attempts[m]

IsResponse(k) == script[k].t = "response"
StatusIn(k, S) == IsResponse(k) /\ script[k].status \in S

\* 1, 2, 4, ..., 2^(n-1)
PowersOfTwo(n) == [i \in 1..n |-> 2 ^ (i - 1)]

\* the k-th attempt of mode m ended the call by raising an error of the
\* given class: nothing was slept and nothing was sent after it
RaisedAt(m, k, kind) ==
    /\ pc[m] = "raised"
    /\ raised[m].kind = kind
    /\ attempts[m] = k
    /\ Len(waits[m]) = k - 1

NonRetryableKindOf(status) ==
    CASE status = 401 -> "AuthenticationError"
      [] status = 403 -> "AuthorizationError"
      [] status = 404 -> "NotFoundError"
      [] status \in {400, 422} -> "ValidationError"

\* C1: an attempt (the first or a later one) answered with 401, 403, 404,
\* 400 or 422 makes the call raise AuthenticationError, AuthorizationError,
\* NotFoundError or ValidationError at once: no sleep and no attempt
\* follows it, and when it is the first response exactly one request was
\* sent.
C1_NonRetryableRaisedAtOnce ==
    \A m \in Modes : \A k \in 1..Processed(m) :
        StatusIn(k, {401, 403, 404, 400, 422}) =>
            /\ RaisedAt(m, k, NonRetryableKindOf(script[k].status))
            /\ raised[m].status_code = PInt(script[k].status)
            /\ (k = 1 => attempts[m] = 1 /\ waits[m] = <<>>)

C1_Witness ==
    \E m \in Modes :
        /\ pc[m] = "raised"
        /\ attempts[m] = 2
        /\ StatusIn(2, {422})
        /\ raised[m].kind = "ValidationError"

AllServer(k) == \A i \in 1..k : StatusIn(i, 500..599)

\* C2: with max_retries = R >= 0 and every attempt answered 5xx, the call
\* makes exactly R+1 attempts, sleeps 1, 2, 4, ..., 2^(R-1) seconds in that
\* order between them (nothing for R = 0), and then raises ServerError.
C2_ServerBackoffSchedule ==
    \A m \in Modes :
        (max_retries >= 0 /\ AllServer(Processed(m))) =>
            /\ waits[m] = PowersOfTwo(Len(waits[m]))
            /\ Len(waits[m]) =
                   IF pc[m] = "sleeping" THEN attempts[m]
                   ELSE IF attempts[m] = 0 THEN 0 ELSE attempts[m] - 1
            /\ Terminal(m) =>
                  /\ pc[m] = "raised"
                  /\ raised[m].kind = "ServerError"
                  /\ attempts[m] = max_retries + 1
                  /\ waits[m] = PowersOfTwo(max_retries)

C2_Witness ==
    \E m \in Modes :
        /\ max_retries = 2
        /\ pc[m] = "raised"
        /\ attempts[m] = 3
        /\ AllServer(3)
        /\ waits[m] = <<1, 2>>

\* what int() makes of each Retry-After value of the inputs, written out
RetryAfterInt ==
    <<"3">> :> 3 @@ <<"0">> :> 0 @@ <<"-", "1">> :> (0 - 1)
    @@ <<" ", "1", "_", "0">> :> 10 @@ <<"+", "7">> :> 7

HasRetryAfterInt(k) ==
    /\ script[k].retry_after_hdr.present
    /\ script[k].retry_after_hdr.value \in DOMAIN RetryAfterInt

RetryAfterOf(k) == RetryAfterInt[script[k].retry_after_hdr.value]

AllRateLimited(k, n) ==
    \A i \in 1..k :
        StatusIn(i, {429}) /\ HasRetryAfterInt(i) /\ RetryAfterOf(i) = n

\* C3: with max_retries = R >= 0 and every attempt answered 429 with an
\* integer Retry-After of n seconds, the call sleeps n seconds before each
\* retry, makes exactly R retries (R+1 attempts) and then raises
\* RateLimitError.
C3_RateLimitRetryAfterSchedule ==
    \A m \in Modes : \A n \in {RetryAfterInt[v] : v \in DOMAIN RetryAfterInt} :
        (max_retries >= 0 /\ Terminal(m) /\ attempts[m] >= 1
         /\ AllRateLimited(attempts[m], n)) =>
            /\ pc[m] = "raised"
            /\ raised[m].kind = "RateLimitError"
            /\ attempts[m] = max_retries + 1
            /\ waits[m] = [i \in 1..max_retries |-> n]

\* C4: the sleep before retrying a RateLimitError is the Retry-After value
\* n whenever the header is present and integer-parseable (n = 0 included),
\* whatever the retries count, and 2^retries when the header is absent or
\* not integer-parseable, retries being the retries already performed.
C4_RateLimitWaitChoice ==
    \A m \in Modes : \A i \in 1..Len(waits[m]) :
        StatusIn(i, {429}) =>
            waits[m][i] = IF HasRetryAfterInt(i) THEN RetryAfterOf(i)
                          ELSE 2 ^ (i - 1)

RetryableKinds == {"RateLimitError", "ServerError", "CavendoError"}

\* C5: with max_retries = R >= 0, whatever the outcomes of the attempts, a
\* call of the retry loop never makes more than R retries (R+1 attempts),
\* and a RateLimitError, ServerError or generic CavendoError leaves it only
\* when exactly R retries have been performed.
C5_RetryBudget ==
    \A m \in Modes :
        max_retries >= 0 =>
            /\ attempts[m] <= max_retries + 1
            /\ retries[m] <= max_retries
            /\ Len(waits[m]) <= max_retries
            /\ (pc[m] = "raised" /\ raised[m].kind \in RetryableKinds) =>
                  /\ retries[m] = max_retries
                  /\ attempts[m] = max_retries + 1
                  /\ Len(waits[m]) = max_retries

C5_Witness ==
    \E m \in Modes :
        /\ max_retries = 2
        /\ pc[m] = "raised"
        /\ raised[m].kind = "RateLimitError"
        /\ retries[m] = 2
        /\ StatusIn(1, {500})
        /\ StatusIn(2, {409})

\* C6: an attempt (the first or a later one) that ends in a connect failure
\* makes the call raise CavendoConnectionError, and one that ends in a
\* timeout makes it raise CavendoTimeoutError; no sleep and no attempt
\* follows, even when retry budget remains.
C6_NetworkFailuresNotRetried ==
    \A m \in Modes : \A k \in 1..Processed(m) :
        /\ script[k].t = "httpx.ConnectError" =>
              RaisedAt(m, k, "CavendoConnectionError")
        /\ script[k].t = "httpx.TimeoutException" =>
              RaisedAt(m, k, "CavendoTimeoutError")

C6_Witness ==
    \E m \in Modes :
        /\ pc[m] = "raised"
        /\ attempts[m] = 2
        /\ retries[m] < max_retries
        /\ script[2].t = "httpx.ConnectError"
        /\ raised[m].kind = "CavendoConnectionError"

\* C7: given the same max_retries and the same sequence of attempt
\* outcomes, the blocking call and the coroutine end in the same result
\* (the same response or the same error with the same fields), after the
\* same number of attempts and the same sequence of requested sleeps.
C7_ModesEquivalent ==
    (Terminal("sync") /\ Terminal("async")) =>
        /\ pc["sync"] = pc["async"]
        /\ response["sync"] = response["async"]
        /\ raised["sync"] = raised["async"]
        /\ attempts["sync"] = attempts["async"]
        /\ waits["sync"] = waits["async"]

\* the errors map of a body: the value of its "errors" key when the body
\* is a mapping that has one and the value is a mapping, else an empty map
BodyErrorsMap(b) ==
    IF b.parses /\ b.json.t = "dict" /\ "errors" \in DOMAIN b.json.d
       /\ b.json.d["errors"].t = "dict"
    THEN b.json.d["errors"]
    ELSE PDict(<<>>)

HeaderInt(h) ==
    IF h.present /\ h.value \in DOMAIN RetryAfterInt
    THEN PInt(RetryAfterInt[h.value])
    ELSE PNone

\* C8: the classifier gives every exchange exactly one outcome: success for
\* 2xx, AuthenticationError for 401, AuthorizationError for 403,
\* NotFoundError for 404, ValidationError for 400 and 422 (with the body's
\* errors map when present, else an empty map), RateLimitError for 429
\* (with retry_after when Retry-After is present and integer-parseable,
\* else None), ServerError for 500-599, and the generic CavendoError for
\* every other status.
C8_ClassifierTable ==
    cl_done =>
        LET st == cl_response.status
            r == cl_result
            expected ==
                CASE st \in 200..299 -> ""
                  [] st = 401 -> "AuthenticationError"
                  [] st = 403 -> "AuthorizationError"
                  [] st = 404 -> "NotFoundError"
                  [] st \in {400, 422} -> "ValidationError"
                  [] st = 429 -> "RateLimitError"
                  [] st \in 500..599 -> "ServerError"
                  [] OTHER -> "CavendoError"
        IN  /\ r.kind = expected
            /\ r.kind \in {""} \cup (Taxonomy \
                   {"CavendoConnectionError", "CavendoTimeoutError"})
            /\ (r = NoError) = (st \in 200..299)
            /\ r.kind # "" => r.status_code = PInt(st)
            /\ r.errors = IF r.kind = "ValidationError"
                          THEN BodyErrorsMap(cl_response.body) ELSE PNone
            /\ r.retry_after = IF r.kind = "RateLimitError"
                               THEN HeaderInt(cl_response.retry_after_hdr)
                               ELSE PNone

C8_Witness ==
    /\ cl_done
    /\ cl_response.status = 422
    /\ cl_response.body = BodyErrors
    /\ cl_result.kind = "ValidationError"
    /\ cl_result.errors = PDict("title" :> PList(<<PStr("required")>>))

\* C9: a call that does not return a response ends by raising exactly one
\* error of the closed taxonomy, whatever the outcomes of its attempts
\* (any status, body and Retry-After value, connect failure, timeout, or
\* any other failure of the transport).
C9_RaisedErrorInTaxonomy ==
    \A m \in Modes : pc[m] = "raised" => raised[m].kind \in Taxonomy

GenericStatus(k) ==
    /\ IsResponse(k)
    /\ script[k].status \notin 200..299
    /\ script[k].status \notin {401, 403, 404, 400, 422, 429}
    /\ script[k].status \notin 500..599

\* the k-th attempt of mode m was treated as a retryable failure of the
\* given class with exponential backoff: while fewer than max_retries
\* retries had been made the call slept 2^(k-1) seconds and went on, and
\* with the budget used up it raised the error of that attempt
RetriedWithBackoff(m, k, kind) ==
    IF k - 1 < max_retries
    THEN /\ Len(waits[m]) >= k
         /\ waits[m][k] = 2 ^ (k - 1)
         /\ pc[m] = "sleeping" \/ attempts[m] > k
    ELSE /\ RaisedAt(m, k, kind)
         /\ raised[m].status_code = PInt(script[k].status)

EnvelopeBodies == {BodyOk, BodyDataList, BodyDataScalar, BodyDataNull}

\* C11: for a 2xx response whose body decodes, data extraction returns the
\* value of the "data" key when the decoded body is a mapping that has the
\* key (whatever the value: mapping, list, scalar or null), and the decoded
\* body itself, unchanged, otherwise (a bare list, a mapping without
\* "data").
C11_DataExtraction ==
    (cl_extracted /\ cl_response.status \in 200..299
     /\ cl_response.body.parses) =>
        /\ cl_data.t = "data"
        /\ cl_data.error = NoError
        /\ cl_data.data =
               IF cl_response.body \in EnvelopeBodies
               THEN cl_response.body.json.d["data"]
               ELSE cl_response.body.json

C11_Witness ==
    /\ cl_extracted
    /\ cl_response.status = 200
    /\ cl_response.body = BodyDataScalar
    /\ cl_data.t = "data"
    /\ cl_data.data = PInt(0)

\* C12: when the call behind _request_json gets a 2xx response whose body
\* is not JSON, _request_json raises ServerError and never hands the raw
\* body to the caller; the error follows the successful attempt with no
\* sleep and no further attempt.
C12_UndecodableBodyRaisesServerError ==
    \A m \in Modes :
        /\ (pc[m] = "returned" /\ ~response[m].body.parses) =>
              /\ unwrapped[m].t = "raised"
              /\ unwrapped[m].error.kind = "ServerError"
              /\ unwrapped[m].data = PNone
              /\ script[attempts[m]] = response[m]
              /\ completed[m] = attempts[m]
              /\ Len(waits[m]) = attempts[m] - 1
        /\ unwrapped[m].t = "data" =>
              /\ pc[m] = "returned"
              /\ response[m].body.parses

C12_Witness ==
    \E m \in Modes :
        /\ pc[m] = "returned"
        /\ attempts[m] = 2
        /\ response[m].status = 204
        /\ ~response[m].body.parses
        /\ unwrapped[m].error.kind = "ServerError"

NonEmpty(x) == x.some /\ x.str # <<>>

\* C13: construction fails (ValueError) exactly when neither the api_key
\* argument nor CAVENDO_AGENT_KEY gives a non-empty credential; a failed
\* construction has created no httpx client and sent no request, and every
\* constructed client holds a non-empty credential.
C13_CredentialRequired ==
    /\ constructed = "failed" =>
          /\ ~NonEmpty(arg_key) /\ ~NonEmpty(env_key)
          /\ \A m \in Modes :
                /\ created[m] = 0
                /\ http_client[m] = 0
                /\ calls[m] = 0
                /\ attempts[m] = 0
                /\ sent[m] = {}
    /\ constructed = "ok" =>
          /\ NonEmpty(arg_key) \/ NonEmpty(env_key)
          /\ cfg_key.some
          /\ cfg_key.str # <<>>

C13_Witness ==
    /\ constructed = "failed"
    /\ arg_key = Str(<<>>)
    /\ env_key = StrNone

\* the string without its trailing slashes, written as a property: what is
\* left has no trailing slash and what was cut off is slashes only
IsStripped(stored, given) ==
    /\ Len(stored) <= Len(given)
    /\ stored = SubSeq(given, 1, Len(stored))
    /\ \A i \in (Len(stored) + 1)..Len(given) : given[i] = "/"
    /\ stored = <<>> \/ stored[Len(stored)] # "/"

\* C14 as stated: the credential stored is the api_key argument when one
\* was supplied, else the environment's; the base address stored is the
\* url argument when supplied, else the environment's, else the default,
\* without trailing slash; an argument that was supplied is never
\* overridden by the environment.
C14_ExplicitArgumentsFirst ==
    constructed = "ok" =>
        /\ cfg_key = IF arg_key.some THEN arg_key ELSE env_key
        /\ IsStripped(cfg_url,
               IF arg_url.some THEN arg_url.str
               ELSE IF env_url.some THEN env_url.str
               ELSE DefaultUrl)

\* C14 as the code has it: the credential stored is the api_key argument
\* when it is supplied and not empty, else the environment's; the base
\* address stored is the url argument when it is supplied and not empty,
\* else the environment's value when the variable is set, else the
\* default, without trailing slashes; an argument that is not empty is
\* never overridden by the environment.
C14_NonEmptyArgumentsFirst ==
    constructed = "ok" =>
        /\ cfg_key = IF NonEmpty(arg_key) THEN arg_key ELSE env_key
        /\ IsStripped(cfg_url,
               IF NonEmpty(arg_url) THEN arg_url.str
               ELSE IF env_url.some THEN env_url.str
               ELSE DefaultUrl)

C14_Witness ==
    /\ constructed = "ok"
    /\ arg_url = Str(<<"u", "/", "/">>)
    /\ env_url = Str(<<"e", "/">>)
    /\ cfg_url = <<"u">>
    /\ arg_key = Str(<<"a">>)
    /\ env_key = Str(<<"b">>)
    /\ cfg_key = Str(<<"a">>)

Other(m) == IF m = "sync" THEN "async" ELSE "sync"

\* C15: a release in one mode (close() or leaving a with block; aclose()
\* or leaving an async with block) closes and clears the httpx client of
\* that mode only: the other mode's client is neither closed nor cleared.
C15_ReleaseIsPerMode ==
    [][\A m \in Modes :
          closes'[m] # closes[m] =>
              /\ http_client'[m] = 0
              /\ closed'[m] = closed[m] \cup ({http_client[m]} \ {0})
              /\ http_client'[Other(m)] = http_client[Other(m)]
              /\ closed'[Other(m)] = closed[Other(m)]]_vars

C15_Witness ==
    /\ closes["sync"] = 1
    /\ closes["async"] = 0
    /\ http_client["sync"] = 0
    /\ closed["sync"] = {1}
    /\ http_client["async"] = 1
    /\ closed["async"] = {}

UsedClients(m) == {x.res : x \in sent[m]}

\* C16: construction creates no httpx client; the first call of a mode
\* creates that mode's client, and every later request of the mode, retries
\* included, goes out on the same client as long as no release intervenes.
C16_LazySingleClient ==
    \A m \in Modes :
        /\ calls[m] = 0 => created[m] = 0 /\ http_client[m] = 0
        /\ calls[m] > 0 => created[m] >= 1
        /\ created[m] <= closes[m] + 1
        /\ UsedClients(m) \subseteq 1..created[m]
        /\ closes[m] = 0 => UsedClients(m) \subseteq {1}
        /\ pc[m] \in {"inflight", "sleeping"} =>
              client[m] = http_client[m] /\ client[m] = created[m]

C16_Witness ==
    \E m \in Modes :
        /\ calls[m] = 2
        /\ closes[m] = 0
        /\ retries[m] = 1
        /\ pc[m] = "inflight"
        /\ created[m] = 1
        /\ UsedClients(m) = {1}

\* C17: every request sent, the first attempt of a call and every retry,
\* in either mode, carries the configured credential unchanged in the
\* X-Agent-Key header, with JSON Content-Type and Accept headers.
C17_CredentialOnEveryRequest ==
    \A m \in Modes : \A x \in sent[m] :
        /\ x.headers.XAgentKey =
               IF NonEmpty(arg_key) THEN arg_key.str ELSE env_key.str
        /\ x.headers.XAgentKey # <<>>
        /\ x.headers.ContentType = "application/json"
        /\ x.headers.Accept = "application/json"

C17_Witness ==
    \E m \in Modes :
        /\ pc[m] = "inflight"
        /\ retries[m] = 1
        /\ env_key = Str(<<"b">>)
        /\ \E x \in sent[m] : x.headers.XAgentKey = <<"b">>

\* C18: within one call at most one attempt is in flight: the attempts
\* started are never more than one ahead of the attempts completed, an
\* attempt starts only when the one before it has completed and the sleep
\* that followed it is over, and no step both starts a sleep and starts
\* an attempt.
C18_OneAttemptAtATime ==
    /\ [](\A m \in Modes :
             /\ attempts[m] - completed[m] \in {0, 1}
             /\ (pc[m] = "inflight") = (attempts[m] = completed[m] + 1)
             /\ pc[m] = "sleeping" => Len(waits[m]) = attempts[m])
    /\ [][\A m \in Modes :
             /\ attempts'[m] # attempts[m] =>
                    /\ attempts'[m] = attempts[m] + 1
                    /\ completed[m] = attempts[m]
                    /\ pc[m] \in {"idle", "sleeping"}
                    /\ pc'[m] = "inflight"
                    /\ waits'[m] = waits[m]
                    /\ completed'[m] = completed[m]
             /\ waits'[m] # waits[m] =>
                    /\ pc[m] = "inflight"
                    /\ completed'[m] = completed[m] + 1
                    /\ pc'[m] \in {"sleeping", "raised"}]_vars

C18_Witness ==
    \E m \in Modes :
        /\ pc[m] = "inflight"
        /\ attempts[m] = 3
        /\ completed[m] = 2
        /\ Len(waits[m]) = 2

\* C19: for a non-2xx response the message of the error is the body's
\* error value when the body is a mapping with that key, else its message
\* value when it has that key, else the response text, else "HTTP
\* {status}"; the body recorded on the error is the decoded body whenever
\* the body parses, mapping or not, and None only when it does not parse.
C19_MessageAndRecordedBody ==
    (cl_done /\ ~IsSuccess(cl_response.status)) =>
        LET b == cl_response.body
            isMap == b.parses /\ b.json.t = "dict"
        IN  /\ cl_result.message =
                   IF isMap /\ "error" \in DOMAIN b.json.d
                   THEN b.json.d["error"]
                   ELSE IF isMap /\ "message" \in DOMAIN b.json.d
                   THEN b.json.d["message"]
                   ELSE IF b.text # ""
                   THEN PStr(b.text)
                   ELSE PStr("HTTP " \o ToString(cl_response.status))
            /\ cl_result.response_body =
                   IF b.parses THEN b.json ELSE PNone

\* C20: every call ends.  Once begun, a call reaches a terminal state,
\* either returned (with a response and no error) or raised (with an
\* error and no response), for every max_retries and every outcome of
\* its attempts, and from a terminal state it makes no further attempt.
C20_Termination ==
    /\ \A m \in Modes : (pc[m] \in {"inflight", "sleeping"}) ~> Terminal(m)
    /\ [](\A m \in Modes :
             /\ pc[m] = "returned" =>
                    response[m] # NoResponse /\ raised[m] = NoError
             /\ pc[m] = "raised" =>
                    response[m] = NoResponse /\ raised[m] # NoError)
    /\ [][\A m \in Modes :
             Terminal(m) =>
                 /\ pc'[m] = pc[m]
                 /\ attempts'[m] = attempts[m]
                 /\ waits'[m] = waits[m]]_vars

C20_Witness ==
    \E m \in Modes :
        /\ pc[m] = "raised"
        /\ max_retries = 2
        /\ attempts[m] = 3
        /\ Len(waits[m]) = 2
        /\ raised[m].kind = "ServerError"

\* the wait after the k-th attempt is an exponential one: the attempt was
\* answered 5xx, a generic status, or 429 without an integer Retry-After
ExponentialAt(k) ==
    \/ StatusIn(k, 500..599)
    \/ GenericStatus(k)
    \/ (StatusIn(k, {429}) /\ ~HasRetryAfterInt(k))

\* C21: one retries counter serves every retryable kind of a call: in a
\* sequence that mixes rate-limit, server and generic failures the i-th
\* wait, when it is an exponential one, is 2^(i-1), i-1 being the retries
\* made so far for any reason, and with max_retries = R >= 0 the retries
\* of all kinds together never exceed R.
C21_SharedRetriesCounter ==
    \A m \in Modes :
        /\ \A i \in 1..Len(waits[m]) :
               ExponentialAt(i) => waits[m][i] = 2 ^ (i - 1)
        /\ pc[m] \in {"inflight", "sleeping"} => retries[m] = attempts[m] - 1
        /\ max_retries >= 0 =>
               /\ retries[m] <= max_retries
               /\ Len(waits[m]) <= max_retries

C21_Witness ==
    \E m \in Modes :
        /\ max_retries = 2
        /\ Len(waits[m]) = 2
        /\ StatusIn(1, {500})
        /\ StatusIn(2, {429}) /\ ~script[2].retry_after_hdr.present
        /\ waits[m] = <<1, 2>>
        /\ pc[m] = "raised"
        /\ StatusIn(3, {409})

\* the error the classifier makes of the k-th outcome of the script, by
\* its status, body and Retry-After header
RetryableErrorOf(k) ==
    LET o == script[k]
        kind == IF o.status = 429 THEN "RateLimitError"
                ELSE IF o.status \in 500..599 THEN "ServerError"
                ELSE "CavendoError"
        isMap == o.body.parses /\ o.body.json.t = "dict"
    IN  [kind |-> kind,
         message |-> IF isMap /\ "error" \in DOMAIN o.body.json.d
                     THEN o.body.json.d["error"]
                     ELSE PStr(o.body.text),
         status_code |-> PInt(o.status),
         response_body |-> IF isMap THEN o.body.json ELSE PNone,
         errors |-> PNone,
         retry_after |-> IF kind = "RateLimitError"
                         THEN HeaderInt(o.retry_after_hdr) ELSE PNone]

\* C22: with max_retries = R >= 0, the RateLimitError, ServerError or
\* generic CavendoError that leaves a call whose budget is used up is the
\* one made from the response of the last attempt, with its kind, status
\* code, message, body and retry_after, never one kept from an attempt
\* before it.
C22_LastAttemptErrorRaised ==
    \A m \in Modes :
        (max_retries >= 0 /\ pc[m] = "raised"
         /\ raised[m].kind \in RetryableKinds) =>
            /\ retries[m] = max_retries
            /\ attempts[m] = max_retries + 1
            /\ raised[m] = RetryableErrorOf(attempts[m])

C22_Witness ==
    \E m \in Modes :
        /\ max_retries = 1
        /\ pc[m] = "raised"
        /\ attempts[m] = 2
        /\ StatusIn(1, {429})
        /\ StatusIn(2, {500})
        /\ raised[m].kind = "ServerError"
        /\ raised[m].status_code = PInt(500)

\* the k-th attempt of mode m was answered 2xx and ended the call: k
\* attempts, k-1 waits, that response returned and no error raised
ReturnedAt(m, k) ==
    /\ pc[m] = "returned"
    /\ attempts[m] = k
    /\ completed[m] = k
    /\ Len(waits[m]) = k - 1
    /\ response[m] = script[k]
    /\ raised[m] = NoError

\* C23 as stated: when the attempts before the k-th fail with retryable
\* kinds and the k-th (k <= max_retries + 1) is answered 2xx, the call
\* returns the data of that response after exactly k attempts and k-1
\* waits, with nothing after it and no earlier error raised.
C23_SuccessAfterRetries ==
    \A m \in Modes : \A k \in 1..Processed(m) :
        StatusIn(k, 200..299) =>
            /\ ReturnedAt(m, k)
            /\ unwrapped[m].t = "data"
            /\ unwrapped[m].data =
                   IF script[k].body \in EnvelopeBodies
                   THEN script[k].body.json.d["data"]
                   ELSE script[k].body.json

\* C23, amended: the same, the data being returned when the body of the
\* 2xx response decodes; when it does not (an empty 204, say) the retry
\* loop still ends there, after k attempts and k-1 waits, and the call
\* raises the ServerError of data extraction.
C23_DecodableSuccessAfterRetries ==
    \A m \in Modes : \A k \in 1..Processed(m) :
        StatusIn(k, 200..299) =>
            /\ ReturnedAt(m, k)
            /\ k <= max_retries + 1
            /\ \A i \in 1..(k - 1) :
                   StatusIn(i, {429}) \/ StatusIn(i, 500..599)
                   \/ GenericStatus(i)
            /\ IF script[k].body.parses
               THEN /\ unwrapped[m].t = "data"
                    /\ unwrapped[m].error = NoError
                    /\ unwrapped[m].data =
                           IF script[k].body \in EnvelopeBodies
                           THEN script[k].body.json.d["data"]
                           ELSE script[k].body.json
               ELSE /\ unwrapped[m].t = "raised"
                    /\ unwrapped[m].error.kind = "ServerError"

C23_Witness ==
    \E m \in Modes :
        /\ max_retries = 2
        /\ pc[m] = "returned"
        /\ attempts[m] = 3
        /\ StatusIn(1, {500})
        /\ StatusIn(2, {429})
        /\ script[3] = Response(200, HeaderAbsent, BodyOk)
        /\ waits[m] = <<1, 2>>
        /\ unwrapped[m].data = BodyOk.json.d["data"]

\* C24: for every max_retries the constructor accepts, zero and negative
\* ones included, a call sends at least one request before it raises an
\* error: no error is reported for a call that was never sent.
C24_AttemptBeforeError ==
    \A m \in Modes : pc[m] = "raised" => attempts[m] >= 1

\* C25: whatever Retry-After value a 429 response carries (absent, not an
\* integer, zero, a negative or a positive integer) and whatever the
\* retries count, the duration handed to sleep is not negative.
C25_WaitNotNegative ==
    \A m \in Modes : \A i \in 1..Len(waits[m]) : waits[m][i] >= 0

\* C26: an error raised for a call that carries a status code carries the
\* status code of the response that caused it, the ServerError raised for
\* a 2xx response with an undecodable body included, and a
\* CavendoConnectionError or CavendoTimeoutError carries none.
C26_StatusCodeOfTheResponse ==
    \A m \in Modes :
        /\ (pc[m] = "raised" /\ raised[m].status_code # PNone) =>
               /\ attempts[m] >= 1
               /\ IsResponse(attempts[m])
               /\ raised[m].status_code = PInt(script[attempts[m]].status)
        /\ (unwrapped[m].t = "raised"
            /\ unwrapped[m].error.status_code # PNone) =>
               unwrapped[m].error.status_code = PInt(response[m].status)
        /\ (pc[m] = "raised"
            /\ raised[m].kind \in {"CavendoConnectionError",
                                   "CavendoTimeoutError"}) =>
               raised[m].status_code = PNone

\* C28: with one caller making requests and releases one after another,
\* the attribute of each mode is None or holds an httpx client that has
\* not been closed, and no request goes out on a closed one; a release
\* that finds the attribute None changes nothing, so a second release in
\* a row closes nothing more; and a request that finds the attribute None
\* creates a new client and is sent on it.
C28_SlotNeverHoldsReleased ==
    /\ [](\A m \in Modes :
             /\ http_client[m] # 0 =>
                    /\ http_client[m] \notin closed[m]
                    /\ http_client[m] = created[m]
             /\ closed[m] \subseteq 1..created[m]
             /\ Cardinality(closed[m]) <= closes[m]
             /\ \A x \in sent[m] : ~x.closed)
    /\ [][\A m \in Modes :
             /\ (closes'[m] # closes[m] /\ http_client[m] = 0) =>
                    /\ closed' = closed
                    /\ http_client' = http_client
                    /\ created' = created
             /\ (calls'[m] # calls[m] /\ http_client[m] = 0) =>
                    /\ created'[m] = created[m] + 1
                    /\ http_client'[m] = created'[m]
                    /\ http_client'[m] \notin closed'[m]
                    /\ client'[m] = http_client'[m]
                    /\ max_retries >= 0 =>
                           \E x \in sent'[m] : x.res = created'[m]]_vars

C28_Witness ==
    \E m \in Modes :
        /\ closes[m] = 2
        /\ closed[m] = {1}
        /\ created[m] = 2
        /\ http_client[m] = 2
        /\ pc[m] = "inflight"
        /\ \E x \in sent[m] : x.res = 2 /\ ~x.closed

\* C27: whenever a release overlaps a call of the same mode (aclose() by
\* one task while another is suspended in client.request or in the sleep,
\* close() by one thread while another is inside a blocking request), no
\* request goes out on an httpx client that has been closed.
C27_NoAttemptOnReleased ==
    \A x \in t_sent : ~x.closed

\* C29: under cooperative scheduling, the calls of any number of tasks
\* started together on a fresh client, several first calls before any has
\* completed included, create one httpx.AsyncClient in all, and every
\* request of theirs goes out on it (as long as nothing is released).
C29_OneClientForConcurrentTasks ==
    (run_mode = "async" /\ closes["async"] = 0) =>
        /\ created["async"] <= 1
        /\ \A x \in t_sent : x.res = 1 /\ ~x.closed
        /\ \A t \in Callers :
               t_pc[t] \in {"inflight", "sleeping", "returned", "raised"} =>
                   /\ created["async"] = 1
                   /\ t_client[t] = 1
                   /\ http_client["async"] = 1
        /\ \A t \in Callers : t_error[t] \in {"", "ServerError"}

C29_Witness ==
    /\ run_mode = "async"
    /\ closes["async"] = 0
    /\ \A t \in Callers : t_pc[t] = "inflight" /\ t_retries[t] = 0
    /\ created["async"] = 1
    /\ {x.caller : x \in t_sent} = Callers

\* C30: when two threads make the first blocking calls on a fresh client,
\* the emptiness check and the assignment of the lazy getter being
\* separate steps, at most one httpx.Client is ever created, so none is
\* left that the attribute does not hold and close() will not close.
C30_OneClientForConcurrentThreads ==
    (run_mode = "sync" /\ closes["sync"] = 0) =>
        /\ created["sync"] <= 1
        /\ \A c \in 1..created["sync"] : http_client["sync"] = c

====
